---------------------------- MODULE Spec2Model ----------------------------
(***************************************************************************)
(* A model of canvasupdater.cpp: the date engine (addDays), the template   *)
(* formatter (formatDate) and the directive scanner (the loop of           *)
(* processFile).                                                           *)
(*                                                                         *)
(* Text is a sequence of one-character strings.  Positions are 0-based as  *)
(* in std::string: the character at position p of s is s[p + 1].           *)
(***************************************************************************)
EXTENDS Integers, Sequences, FiniteSets, TLC

VARIABLES
    pc,          \* where the program is
    \* ---- processFile
    file,        \* the file's text on disk
    original,    \* the file's text before the first run (history)
    content,     \* std::string content
    searchPos,   \* size_t searchPos
    modified,    \* bool modified
    written,     \* whether this run truncated and rewrote the file
    startDate,   \* const std::tm& startDate
    startIndex,  \* int startIndex
    last,        \* the locals of the most recent loop iteration
    iters,       \* loop iterations so far (history, saturating at MaxIter)
    processed,   \* iterations that spliced or skipped a bad day number (history)
    spans,       \* the spans this run has spliced (history)
    run,         \* 1: first run on the file, 2: a second run on its output
    firstOut,    \* the file's text after the first run (history)
    firstSpans,  \* the spans of the first run (history)
    \* ---- formatDate
    fDate, fFormat, fOut,
    \* ---- addDays
    dBase, dOffset, dFwd, dBack

scanVars == <<file, original, content, searchPos, modified, written, startDate,
              startIndex, last, iters, processed, spans, run, firstOut, firstSpans>>
fmtVars == <<fDate, fFormat, fOut>>
dateVars == <<dBase, dOffset, dFwd, dBack>>
vars == <<pc, scanVars, fmtVars, dateVars>>

(***************************************************************************)
(* Bounds of the model.                                                    *)
(***************************************************************************)
MaxItems == 3
MaxIter == MaxItems + 2

(***************************************************************************)
(* int and std::string::npos.                                              *)
(***************************************************************************)
INT_MAX == 2147483647
INT_MIN == -INT_MAX - 1
npos == -1

Min(a, b) == IF a < b THEN a ELSE b

(***************************************************************************)
(* std::string operations.                                                 *)
(***************************************************************************)
MatchAt(s, pat, p) ==
    /\ p >= 0
    /\ p + Len(pat) <= Len(s)
    /\ \A k \in 1..Len(pat) : s[p + k] = pat[k]

\* s.find(pat, from)
Find(s, pat, from) ==
    LET hits == {p \in from..(Len(s) - Len(pat)) : MatchAt(s, pat, p)}
    IN  IF hits = {} THEN npos
        ELSE CHOOSE p \in hits : \A q \in hits : p <= q

\* s.rfind(ch)
RFind(s, ch) ==
    LET hits == {p \in 0..(Len(s) - 1) : s[p + 1] = ch}
    IN  IF hits = {} THEN npos
        ELSE CHOOSE p \in hits : \A q \in hits : q <= p

\* s.substr(pos, n)
Substr(s, pos, n) == SubSeq(s, pos + 1, Min(pos + n, Len(s)))

\* s.substr(pos)
SubstrFrom(s, pos) == SubSeq(s, pos + 1, Len(s))

\* s.replace(pos, n, t)
Replace(s, pos, n, t) ==
    SubSeq(s, 1, pos) \o t \o SubSeq(s, Min(pos + n, Len(s)) + 1, Len(s))

\* s.find_first_not_of(set)
FindFirstNotOf(s, set) ==
    LET hits == {p \in 0..(Len(s) - 1) : s[p + 1] \notin set}
    IN  IF hits = {} THEN npos
        ELSE CHOOSE p \in hits : \A q \in hits : p <= q

\* s.find_last_not_of(set)
FindLastNotOf(s, set) ==
    LET hits == {p \in 0..(Len(s) - 1) : s[p + 1] \notin set}
    IN  IF hits = {} THEN npos
        ELSE CHOOSE p \in hits : \A q \in hits : q <= p

\* s.erase(0, n): n = npos erases to the end
EraseFront(s, n) == IF n = npos THEN <<>> ELSE SubSeq(s, n + 1, Len(s))

\* s.erase(pos): pos = npos + 1 wraps to 0 in size_t
EraseFrom(s, pos) == SubSeq(s, 1, pos)

DigitChars == <<"0", "1", "2", "3", "4", "5", "6", "7", "8", "9">>
DigitSet == {DigitChars[i] : i \in 1..10}
DigitVal(c) == (CHOOSE i \in 1..10 : DigitChars[i] = c) - 1

\* std::to_string(n)
RECURSIVE NatToString(_)
NatToString(n) ==
    IF n < 10 THEN <<DigitChars[n + 1]>>
    ELSE NatToString(n \div 10) \o <<DigitChars[(n % 10) + 1]>>

to_string(n) == IF n < 0 THEN <<"-">> \o NatToString(-n) ELSE NatToString(n)

(***************************************************************************)
(* std::stoi: leading white space is skipped, an optional sign is read,    *)
(* then the longest run of digits; what follows is ignored.  No digit:     *)
(* std::invalid_argument; a value outside int: std::out_of_range.          *)
(***************************************************************************)
SpaceChars == {" ", "\t", "\n", "\r", "\f"}

StoiBody(s) ==
    LET p == FindFirstNotOf(s, SpaceChars)
    IN  IF p = npos THEN <<>> ELSE SubstrFrom(s, p)

StoiNegative(s) == StoiBody(s) # <<>> /\ StoiBody(s)[1] = "-"

StoiDigits(s) ==
    LET b == StoiBody(s)
        u == IF b # <<>> /\ b[1] \in {"+", "-"} THEN Tail(b) ELSE b
        e == FindFirstNotOf(u, DigitSet)
    IN  IF e = npos THEN u ELSE SubSeq(u, 1, e)

\* the digits without their leading zeros
StoiSignificant(s) ==
    LET d == StoiDigits(s)
        p == FindFirstNotOf(d, {"0"})
    IN  IF p = npos THEN <<>> ELSE SubstrFrom(d, p)

RECURSIVE DigitsValue(_)
DigitsValue(d) ==
    IF d = <<>> THEN 0
    ELSE 10 * DigitsValue(SubSeq(d, 1, Len(d) - 1)) + DigitVal(d[Len(d)])

StoiInRange(s) ==
    LET d == StoiSignificant(s)
    IN  \/ Len(d) <= 9
        \/ /\ Len(d) = 10
           /\ LET hi == DigitsValue(SubSeq(d, 1, 9))
                  lo == DigitVal(d[10])
              IN  \/ hi < INT_MAX \div 10
                  \/ /\ hi = INT_MAX \div 10
                     /\ lo <= (IF StoiNegative(s) THEN 8 ELSE 7)

\* whether std::stoi(s) returns (rather than throws)
StoiOk(s) == StoiDigits(s) # <<>> /\ StoiInRange(s)

\* the value std::stoi(s) returns
StoiValue(s) ==
    LET d == StoiSignificant(s)
        hi == DigitsValue(SubSeq(d, 1, Len(d) - 1))
        lo == IF d = <<>> THEN 0 ELSE DigitVal(d[Len(d)])
    IN  IF StoiNegative(s) THEN (-(10 * hi)) - lo ELSE 10 * hi + lo

(***************************************************************************)
(* std::mktime, as far as the program reads its result: tm_year, tm_mon,   *)
(* tm_mday and tm_wday of the normalized date in the proleptic Gregorian   *)
(* calendar.  The time of day is 00:00:00 throughout and is left out.      *)
(* 400 years are 146097 days, a multiple of 7: whole cycles are split off  *)
(* first so that the day arithmetic stays small.                           *)
(***************************************************************************)
DaysPer400Years == 146097

\* days from 1970-01-01 to y-m-d (m in 1..12)
DaysFromCivil(y, m, d) ==
    LET yy == IF m <= 2 THEN y - 1 ELSE y
        era == yy \div 400
        yoe == yy - era * 400
        mp == (m + 9) % 12
        doy == (153 * mp + 2) \div 5 + d - 1
        doe == yoe * 365 + yoe \div 4 - yoe \div 100 + doy
    IN  era * DaysPer400Years + doe - 719468

\* the date z days after 1970-01-01
CivilFromDays(z) ==
    LET zz == z + 719468
        era == zz \div DaysPer400Years
        doe == zz - era * DaysPer400Years
        yoe == (doe - doe \div 1460 + doe \div 36524 - doe \div 146096) \div 365
        doy == doe - (365 * yoe + yoe \div 4 - yoe \div 100)
        mp == (5 * doy + 2) \div 153
        d == doy - (153 * mp + 2) \div 5 + 1
        m == IF mp < 10 THEN mp + 3 ELSE mp - 9
        y == yoe + era * 400
    IN  [y |-> IF m <= 2 THEN y + 1 ELSE y, m |-> m, d |-> d]

Mktime(tm) ==
    LET year == tm.tm_year + 1900 + (tm.tm_mon \div 12)
        mon == tm.tm_mon % 12
        cycles == (year \div 400) + (tm.tm_mday \div DaysPer400Years)
        z == DaysFromCivil(year % 400, mon + 1, 1)
                 + (tm.tm_mday % DaysPer400Years) - 1
        c == CivilFromDays(z)
    IN  [tm_year |-> c.y + 400 * cycles - 1900,
         tm_mon |-> c.m - 1,
         tm_mday |-> c.d,
         tm_wday |-> (z + 4) % 7]

\* what parseStartDate leaves in startDate for MM/DD/YYYY: the other fields are 0
Tm(year, month, day) ==
    [tm_year |-> year - 1900, tm_mon |-> month - 1, tm_mday |-> day, tm_wday |-> 0]

(***************************************************************************)
(* addDays.  baseDate.tm_mday += days is an int addition: when it          *)
(* overflows the behaviour is undefined; a build either wraps modulo 2^32  *)
(* or traps.                                                               *)
(***************************************************************************)
AddOverflows(a, b) ==
    \/ b > 0 /\ a > INT_MAX - b
    \/ b < 0 /\ a < INT_MIN - b

\* a + b modulo 2^32, as a two's complement int
WrapAdd(a, b) ==
    IF b > 0 /\ a > INT_MAX - b THEN ((a - INT_MAX) - 1) + (b + INT_MIN)
    ELSE IF b < 0 /\ a < INT_MIN - b THEN ((a - INT_MIN) + 1) + (b + INT_MAX)
    ELSE a + b

addDays(baseDate, days) ==
    Mktime([baseDate EXCEPT !.tm_mday = WrapAdd(@, days)])

(***************************************************************************)
(* formatDate.                                                             *)
(***************************************************************************)
monthNames ==
    <<<<"J", "a", "n", "u", "a", "r", "y">>,
      <<"F", "e", "b", "r", "u", "a", "r", "y">>,
      <<"M", "a", "r", "c", "h">>,
      <<"A", "p", "r", "i", "l">>,
      <<"M", "a", "y">>,
      <<"J", "u", "n", "e">>,
      <<"J", "u", "l", "y">>,
      <<"A", "u", "g", "u", "s", "t">>,
      <<"S", "e", "p", "t", "e", "m", "b", "e", "r">>,
      <<"O", "c", "t", "o", "b", "e", "r">>,
      <<"N", "o", "v", "e", "m", "b", "e", "r">>,
      <<"D", "e", "c", "e", "m", "b", "e", "r">>>>

monthAbbrs ==
    <<<<"J", "a", "n">>,
      <<"F", "e", "b">>,
      <<"M", "a", "r">>,
      <<"A", "p", "r">>,
      <<"M", "a", "y">>,
      <<"J", "u", "n">>,
      <<"J", "u", "l">>,
      <<"A", "u", "g">>,
      <<"S", "e", "p">>,
      <<"O", "c", "t">>,
      <<"N", "o", "v">>,
      <<"D", "e", "c">>>>

dayNames ==
    <<<<"S", "u", "n", "d", "a", "y">>,
      <<"M", "o", "n", "d", "a", "y">>,
      <<"T", "u", "e", "s", "d", "a", "y">>,
      <<"W", "e", "d", "n", "e", "s", "d", "a", "y">>,
      <<"T", "h", "u", "r", "s", "d", "a", "y">>,
      <<"F", "r", "i", "d", "a", "y">>,
      <<"S", "a", "t", "u", "r", "d", "a", "y">>>>

dayAbbrs ==
    <<<<"S", "u", "n">>,
      <<"M", "o", "n">>,
      <<"T", "u", "e">>,
      <<"W", "e", "d">>,
      <<"T", "h", "u">>,
      <<"F", "r", "i">>,
      <<"S", "a", "t">>>>

\* dayStream << std::setw(2) << std::setfill('0') << date.tm_mday
dayPaddedStr(date) ==
    LET t == to_string(date.tm_mday)
    IN  IF Len(t) < 2 THEN <<"0">> \o t ELSE t

\* the replacements, in the order they are applied
replacements(date) ==
    LET yearStr == to_string(date.tm_year + 1900)
    IN  << <<<<"Y", "Y", "Y", "Y">>, yearStr>>,
           <<<<"M", "M">>, monthNames[date.tm_mon + 1]>>,
           <<<<"N", "N">>, dayNames[date.tm_wday + 1]>>,
           <<<<"D", "D">>, dayPaddedStr(date)>>,
           <<<<"Y">>, yearStr>>,
           <<<<"M">>, monthAbbrs[date.tm_mon + 1]>>,
           <<<<"N">>, dayAbbrs[date.tm_wday + 1]>>,
           <<<<"D">>, to_string(date.tm_mday)>> >>

\* the inner while loop: every occurrence of from at or after start_pos
RECURSIVE ReplaceEvery(_, _, _, _)
ReplaceEvery(format, from, to, start_pos) ==
    LET p == Find(format, from, start_pos)
    IN  IF p = npos THEN format
        ELSE ReplaceEvery(Replace(format, p, Len(from), to), from, to, p + Len(to))

\* the outer for loop, from the k-th replacement on
RECURSIVE ApplyReplacements(_, _, _)
ApplyReplacements(format, repl, k) ==
    IF k > Len(repl) THEN format
    ELSE ApplyReplacements(ReplaceEvery(format, repl[k][1], repl[k][2], 0), repl, k + 1)

formatDate(date, format) == ApplyReplacements(format, replacements(date), 1)

(***************************************************************************)
(* processFile: the locals of one iteration of the scan loop, as functions *)
(* of the buffer and of the position the marker was found at.              *)
(***************************************************************************)
startMarker == <<"D", "a", "t", "e", "R", "e", "p", "l", "a", "c", "e", "(">>

\* content.find(startMarker, searchPos), the loop condition
MarkerPos(text, from) == Find(text, startMarker, from)

OpenParenPos(m) == m + Len(startMarker)

CloseParenPos(text, m) == Find(text, <<")">>, OpenParenPos(m))

\* content.find(">", closeParenPos), before the + 1
GtPos(text, closeParenPos) == Find(text, <<">">>, closeParenPos)

\* The replacement starts after the '>'
ReplaceStartPosNoSkip(gtPos) == gtPos
ReplaceStartPos(gtPos) == gtPos + 1

ReplaceEndPos(text, replaceStartPos) == Find(text, <<"<">>, replaceStartPos)

ArgsStr(text, m) ==
    Substr(text, OpenParenPos(m), CloseParenPos(text, m) - OpenParenPos(m))

CommaPosFirst(argsStr) == Find(argsStr, <<",">>, 0)
CommaPos(argsStr) == RFind(argsStr, ",")

FormatStr(argsStr) ==
    IF CommaPos(argsStr) = npos THEN argsStr
    ELSE Substr(argsStr, 0, CommaPos(argsStr))

DayOffsetStr(argsStr) == SubstrFrom(argsStr, CommaPos(argsStr) + 1)

\* whether the day number is missing or parses
DayOffsetOk(argsStr) ==
    CommaPos(argsStr) = npos \/ StoiOk(DayOffsetStr(argsStr))

DayOffset(argsStr, index) ==
    IF CommaPos(argsStr) = npos THEN index
    ELSE StoiValue(DayOffsetStr(argsStr))

TrimChars == {" ", "\t", "\n", "\r", "\"", "_", "(", ")"}

\* the two erase calls
TrimFormat(formatStr) ==
    LET front == EraseFront(formatStr, FindFirstNotOf(formatStr, TrimChars))
    IN  EraseFrom(front, FindLastNotOf(front, TrimChars) + 1)

SpliceInsert(text, replaceStartPos, replaceEndPos, newDateStr) ==
    Replace(text, replaceStartPos, 0, newDateStr)
SpliceContent(text, replaceStartPos, replaceEndPos, newDateStr) ==
    Replace(text, replaceStartPos, replaceEndPos - replaceStartPos, newDateStr)

SpliceCursorRestart(replaceStartPos, newDateStr) == 0
SpliceCursor(replaceStartPos, newDateStr) == replaceStartPos + Len(newDateStr)

BadDayCursorAtEnd(text, closeParenPos) == Len(text)
BadDayCursor(text, closeParenPos) == closeParenPos

PersistAlways(flag) == TRUE
PersistCondition(flag) == flag

(***************************************************************************)
(* Values the variables of another specification rest at.                  *)
(***************************************************************************)
NoTm == Tm(1900, 1, 0)
NoLast == [kind |-> "none", markerPos |-> 0, closeParenPos |-> 0,
           replaceStartPos |-> 0, replaceEndPos |-> 0, newDateStr |-> <<>>]

ScanIdle ==
    /\ file = <<>> /\ original = <<>> /\ content = <<>>
    /\ searchPos = 0 /\ modified = FALSE /\ written = FALSE
    /\ startDate = NoTm /\ startIndex = 0 /\ last = NoLast
    /\ iters = 0 /\ processed = 0 /\ spans = <<>>
    /\ run = 1 /\ firstOut = <<>> /\ firstSpans = <<>>

FmtIdle == fDate = NoTm /\ fFormat = <<>> /\ fOut = <<>>

DateIdle == dBase = NoTm /\ dOffset = 0 /\ dFwd = NoTm /\ dBack = NoTm

(***************************************************************************)
(* SpecFormat: formatDate applied to a normalized date and a template.     *)
(***************************************************************************)
FormatYears == {2023, 2024}
FormatDates ==
    {Mktime(Tm(y, m, d)) : y \in FormatYears, m \in 1..12, d \in {1, 9, 10, 19, 28}}

TemplateIso == <<"Y", "Y", "Y", "Y", "-", "M", "M", "-", "D", "D">>
Templates ==
    {TemplateIso,
     <<"M", " ", "D", ",", " ", "Y">>,
     <<"M", "M", "/", "D", "D", "/", "Y", "Y", "Y", "Y">>,
     <<"N", "N", ",", " ", "M", "M", " ", "D">>}

InitFormat ==
    /\ pc = "fmt_ready"
    /\ fDate \in FormatDates
    /\ fFormat \in Templates
    /\ fOut = <<>>
    /\ ScanIdle /\ DateIdle

FormatStep ==
    /\ pc = "fmt_ready"
    /\ fOut' = formatDate(fDate, fFormat)
    /\ pc' = "fmt_done"
    /\ UNCHANGED <<fDate, fFormat, scanVars, dateVars>>

NextFormat == FormatStep

SpecFormat == InitFormat /\ [][NextFormat]_vars

(***************************************************************************)
(* SpecDate: addDays(addDays(base, offset), -offset).                      *)
(***************************************************************************)
BaseYears == {2023, 2024}
BaseDays == {1, 15, 28, 29, 30, 31}
BaseDates == {Tm(y, m, d) : y \in BaseYears, m \in 1..12, d \in BaseDays}
MaxOffset == 800
Offsets ==
    {-MaxOffset, -366, -365, -31, -1, 0, 1, 28, 31, 59, 365, 366, MaxOffset,
     INT_MAX - 31, INT_MAX, -INT_MAX}

InitDate ==
    /\ pc = "add_ready"
    /\ dBase \in BaseDates
    /\ dOffset \in Offsets
    /\ dFwd = NoTm /\ dBack = NoTm
    /\ ScanIdle /\ FmtIdle

\* addDays(base, offset) returns
AddDaysForward ==
    /\ pc = "add_ready"
    /\ dFwd' = addDays(dBase, dOffset)
    /\ pc' = "add_fwd"
    /\ UNCHANGED <<dBase, dOffset, dBack, scanVars, fmtVars>>

\* tm_mday += days overflows and the build traps
AddDaysForwardTrap ==
    /\ pc = "add_ready"
    /\ AddOverflows(dBase.tm_mday, dOffset)
    /\ pc' = "trapped"
    /\ UNCHANGED <<scanVars, fmtVars, dateVars>>

\* addDays(result, -offset) returns
AddDaysBack ==
    /\ pc = "add_fwd"
    /\ dBack' = addDays(dFwd, -dOffset)
    /\ pc' = "add_back"
    /\ UNCHANGED <<dBase, dOffset, dFwd, scanVars, fmtVars>>

AddDaysBackTrap ==
    /\ pc = "add_fwd"
    /\ AddOverflows(dFwd.tm_mday, -dOffset)
    /\ pc' = "trapped"
    /\ UNCHANGED <<scanVars, fmtVars, dateVars>>

NextDate == AddDaysForward \/ AddDaysForwardTrap \/ AddDaysBack \/ AddDaysBackTrap

SpecDate == InitDate /\ [][NextDate]_vars

(***************************************************************************)
(* Spec: processFile on one file of a valid extension that can be opened,  *)
(* from the first loop condition on, and a second run on the file as the   *)
(* first run left it.                                                      *)
(***************************************************************************)
ItemGood == 
    <<"D", "a", "t", "e", "R", "e", "p", "l", "a", "c", "e", "(", "D", ",",
      " ", "2", ")">>
ItemBadDay == 
    <<"D", "a", "t", "e", "R", "e", "p", "l", "a", "c", "e", "(", "D", ",",
      " ", "a", ")">>
ItemNoComma == 
    <<"D", "a", "t", "e", "R", "e", "p", "l", "a", "c", "e", "(", "Y", ")">>
ItemLt == 
    <<"D", "a", "t", "e", "R", "e", "p", "l", "a", "c", "e", "(", "Y", "<",
      ")">>
ItemSpan == <<">", "x", "<">>
Items ==
    {ItemGood, ItemBadDay, ItemNoComma, ItemLt, startMarker, ItemSpan, <<">">>, <<"<">>}

RECURSIVE Flatten(_)
Flatten(seq) == IF seq = <<>> THEN <<>> ELSE Head(seq) \o Flatten(Tail(seq))

ExampleBuffer == 
    <<"D", "a", "t", "e", "R", "e", "p", "l", "a", "c", "e", "(", "M", "M",
      " ", "D", "D", ",", " ", "Y", "Y", "Y", "Y", ",", " ", "5", ")", ">",
      "o", "l", "d", "<">>
ExampleResult == 
    <<"D", "a", "t", "e", "R", "e", "p", "l", "a", "c", "e", "(", "M", "M",
      " ", "D", "D", ",", " ", "Y", "Y", "Y", "Y", ",", " ", "5", ")", ">",
      "J", "a", "n", "u", "a", "r", "y", " ", "1", "9", ",", " ", "2", "0",
      "2", "4", "<">>
BadThenGood == 
    <<"D", "a", "t", "e", "R", "e", "p", "l", "a", "c", "e", "(", "D", ",",
      " ", "a", ")", ">", "x", "<", "D", "a", "t", "e", "R", "e", "p", "l",
      "a", "c", "e", "(", "D", ",", " ", "2", ")", ">", "y", "<">>
BadThenGoodResult == 
    <<"D", "a", "t", "e", "R", "e", "p", "l", "a", "c", "e", "(", "D", ",",
      " ", "a", ")", ">", "x", "<", "D", "a", "t", "e", "R", "e", "p", "l",
      "a", "c", "e", "(", "D", ",", " ", "2", ")", ">", "1", "7", "<">>
TwoDirectives == ItemGood \o ItemSpan \o ItemNoComma \o ItemSpan

Buffers ==
    {Flatten(f) : f \in UNION {[1..n -> Items] : n \in 0..MaxItems}}
        \cup {ExampleBuffer, BadThenGood, TwoDirectives}

StartDates == {Tm(2024, 1, 15), Tm(2024, 8, 26)}
StartIndexes == {0, 1}

Init ==
    /\ pc = "loop"
    /\ file \in Buffers
    /\ original = file
    /\ content = file
    /\ searchPos = 0
    /\ modified = FALSE
    /\ written = FALSE
    /\ startDate \in StartDates
    /\ startIndex \in StartIndexes
    /\ last = NoLast
    /\ iters = 0 /\ processed = 0 /\ spans = <<>>
    /\ run = 1 /\ firstOut = <<>> /\ firstSpans = <<>>
    /\ FmtIdle /\ DateIdle

Marker == MarkerPos(content, searchPos)

\* the loop condition holds: searchPos is assigned, modified is set
EnterBody ==
    /\ pc = "loop"
    /\ Marker # npos
    /\ modified' = TRUE
    /\ iters' = Min(iters + 1, MaxIter)

\* a continue that leaves searchPos at the marker
Skip(kind, closeParenPos) ==
    /\ searchPos' = Marker
    /\ last' = [kind |-> kind, markerPos |-> Marker, closeParenPos |-> closeParenPos,
                replaceStartPos |-> 0, replaceEndPos |-> 0, newDateStr |-> <<>>]
    /\ UNCHANGED <<pc, file, original, content, written, startDate, startIndex,
                   processed, spans, run, firstOut, firstSpans, fmtVars, dateVars>>

\* if (closeParenPos == npos) continue
SkipNoCloseParen ==
    /\ EnterBody
    /\ CloseParenPos(content, Marker) = npos
    /\ Skip("noclose", npos)

\* if (replaceStartPos == npos) continue
SkipNoGt ==
    /\ EnterBody
    /\ \E closeParenPos \in {CloseParenPos(content, Marker)} \ {npos} :
          /\ GtPos(content, closeParenPos) = npos
          /\ Skip("nogt", closeParenPos)

\* if (replaceEndPos == npos) continue
SkipNoLt ==
    /\ EnterBody
    /\ \E closeParenPos \in {CloseParenPos(content, Marker)} \ {npos} :
       \E gtPos \in {GtPos(content, closeParenPos)} \ {npos} :
          /\ ReplaceEndPos(content, ReplaceStartPos(gtPos)) = npos
          /\ Skip("nolt", closeParenPos)

\* std::stoi throws: warn, searchPos = closeParenPos, continue
SkipBadDay ==
    /\ EnterBody
    /\ \E closeParenPos \in {CloseParenPos(content, Marker)} \ {npos} :
       \E gtPos \in {GtPos(content, closeParenPos)} \ {npos} :
       \E replaceStartPos \in {ReplaceStartPos(gtPos)} :
       \E replaceEndPos \in {ReplaceEndPos(content, replaceStartPos)} \ {npos} :
       \E argsStr \in {ArgsStr(content, Marker)} :
          /\ ~DayOffsetOk(argsStr)
          /\ searchPos' = BadDayCursor(content, closeParenPos)
          /\ last' = [kind |-> "badday", markerPos |-> Marker,
                      closeParenPos |-> closeParenPos,
                      replaceStartPos |-> replaceStartPos,
                      replaceEndPos |-> replaceEndPos, newDateStr |-> <<>>]
    /\ processed' = Min(processed + 1, MaxIter)
    /\ UNCHANGED <<pc, file, original, content, written, startDate, startIndex,
                   spans, run, firstOut, firstSpans, fmtVars, dateVars>>

\* the date is computed, formatted and spliced into the target span
Splice ==
    /\ EnterBody
    /\ \E closeParenPos \in {CloseParenPos(content, Marker)} \ {npos} :
       \E gtPos \in {GtPos(content, closeParenPos)} \ {npos} :
       \E replaceStartPos \in {ReplaceStartPos(gtPos)} :
       \E replaceEndPos \in {ReplaceEndPos(content, replaceStartPos)} \ {npos} :
       \E argsStr \in {ArgsStr(content, Marker)} :
          /\ DayOffsetOk(argsStr)
          /\ \E formatStr \in {TrimFormat(FormatStr(argsStr))} :
             \E dayOffset \in {DayOffset(argsStr, startIndex)} :
             \E finalDayOffset \in {dayOffset - startIndex} :
             \E targetDate \in {addDays(startDate, finalDayOffset)} :
             \E newDateStr \in {formatDate(targetDate, formatStr)} :
                /\ content' = SpliceContent(content, replaceStartPos,
                                            replaceEndPos, newDateStr)
                /\ searchPos' = SpliceCursor(replaceStartPos, newDateStr)
                /\ last' = [kind |-> "splice", markerPos |-> Marker,
                            closeParenPos |-> closeParenPos,
                            replaceStartPos |-> replaceStartPos,
                            replaceEndPos |-> replaceEndPos,
                            newDateStr |-> newDateStr]
                /\ spans' = Append(spans,
                                [start |-> replaceStartPos, end |-> replaceEndPos,
                                 newEnd |-> replaceStartPos + Len(newDateStr)])
    /\ processed' = Min(processed + 1, MaxIter)
    /\ UNCHANGED <<pc, file, original, written, startDate, startIndex,
                   run, firstOut, firstSpans, fmtVars, dateVars>>

\* the loop condition fails
ExitLoop ==
    /\ pc = "loop"
    /\ Marker = npos
    /\ searchPos' = npos
    /\ pc' = "persist"
    /\ UNCHANGED <<file, original, content, modified, written, startDate, startIndex,
                   last, iters, processed, spans, run, firstOut, firstSpans,
                   fmtVars, dateVars>>

\* if (modified) { truncate the file and write content }
Persist ==
    /\ pc = "persist"
    /\ IF PersistCondition(modified)
       THEN file' = content /\ written' = TRUE
       ELSE UNCHANGED <<file, written>>
    /\ pc' = "done"
    /\ UNCHANGED <<original, content, searchPos, modified, startDate, startIndex,
                   last, iters, processed, spans, run, firstOut, firstSpans,
                   fmtVars, dateVars>>

\* the program is run again on the file, with the same date and index
Rerun ==
    /\ pc = "done"
    /\ run = 1
    /\ run' = 2
    /\ firstOut' = file
    /\ firstSpans' = spans
    /\ content' = file
    /\ searchPos' = 0
    /\ modified' = FALSE
    /\ written' = FALSE
    /\ last' = NoLast
    /\ iters' = 0 /\ processed' = 0 /\ spans' = <<>>
    /\ pc' = "loop"
    /\ UNCHANGED <<file, original, startDate, startIndex, fmtVars, dateVars>>

Next ==
    \/ SkipNoCloseParen
    \/ SkipNoGt
    \/ SkipNoLt
    \/ SkipBadDay
    \/ Splice
    \/ ExitLoop
    \/ Persist
    \/ Rerun

Spec == Init /\ [][Next]_vars

SameDay(a, b) ==
    a.tm_year = b.tm_year /\ a.tm_mon = b.tm_mon /\ a.tm_mday = b.tm_mday

\* C3: for every normalized date, formatDate(date, "YYYY-MM-DD") is the year,
\* "-", the full month name, "-", and the day of month padded to width 2.
C3_IsoTemplateUncorrupted ==
    (pc = "fmt_done" /\ fFormat = TemplateIso) =>
        fOut = to_string(fDate.tm_year + 1900) \o <<"-">>
                   \o monthNames[fDate.tm_mon + 1] \o <<"-">>
                   \o (IF fDate.tm_mday < 10
                       THEN <<"0", DigitChars[fDate.tm_mday + 1]>>
                       ELSE to_string(fDate.tm_mday))

\* C4: for every valid base date and every int offset,
\* addDays(addDays(base, offset), -offset) has the year, month and day of
\* month of the normalized base date.
C4_AddDaysRoundTrip ==
    pc = "add_back" => SameDay(dBack, Mktime(dBase))

\* The round trip where neither addition overflows int.
RoundTripWithoutOverflow ==
    (pc = "add_back" /\ ~AddOverflows(dBase.tm_mday, dOffset)
                     /\ ~AddOverflows(dFwd.tm_mday, -dOffset))
        => SameDay(dBack, Mktime(dBase))

(***************************************************************************)
(* What the claims about the scan speak of, read off the buffer itself.    *)
(***************************************************************************)
\* the positions at which the marker text occurs
MarkerOccurrences(text) ==
    {p \in 0..(Len(text) - 1) :
        /\ p + Len(startMarker) <= Len(text)
        /\ SubSeq(text, p + 1, p + Len(startMarker)) = startMarker}

NumMarkers(text) == Cardinality(MarkerOccurrences(text))

\* the first position at or after from that holds ch, or Len(text) if none does
FirstCharAt(text, ch, from) ==
    LET at == {p \in from..(Len(text) - 1) : text[p + 1] = ch}
    IN  IF at = {} THEN Len(text)
        ELSE CHOOSE p \in at : \A q \in at : p <= q

\* the directive whose marker is at m: its delimiters and its argument text
ClosingParen(text, m) == FirstCharAt(text, ")", m + Len(startMarker))
SpanOpen(text, m) == FirstCharAt(text, ">", ClosingParen(text, m))
SpanClose(text, m) == FirstCharAt(text, "<", SpanOpen(text, m) + 1)
HasDelimiters(text, m) == SpanClose(text, m) < Len(text)
ArgumentText(text, m) ==
    SubSeq(text, m + Len(startMarker) + 1, ClosingParen(text, m))

Commas(args) == {i \in 1..Len(args) : args[i] = ","}
LastComma(args) == CHOOSE i \in Commas(args) : \A j \in Commas(args) : j <= i
FormatOf(args) ==
    IF Commas(args) = {} THEN args ELSE SubSeq(args, 1, LastComma(args) - 1)
DayTextOf(args) == SubSeq(args, LastComma(args) + 1, Len(args))
DayParses(args) == Commas(args) = {} \/ StoiOk(DayTextOf(args))
DayOf(args, index) ==
    IF Commas(args) = {} THEN index ELSE StoiValue(DayTextOf(args))

RECURSIVE StripFront(_)
StripFront(t) ==
    IF t # <<>> /\ Head(t) \in TrimChars THEN StripFront(Tail(t)) ELSE t
RECURSIVE StripBack(_)
StripBack(t) ==
    IF t # <<>> /\ t[Len(t)] \in TrimChars
    THEN StripBack(SubSeq(t, 1, Len(t) - 1)) ELSE t
Strip(t) == StripBack(StripFront(t))

\* the date text the directive at m stands for
Rendered(text, m, date, index) ==
    LET args == ArgumentText(text, m)
    IN  formatDate(addDays(date, DayOf(args, index) - index), Strip(FormatOf(args)))

\* a step that runs the loop body once
IterStep == pc = "loop" /\ pc' = "loop"

\* the buffer the current run started from
RunInput == IF run = 1 THEN original ELSE firstOut

(***************************************************************************)
(* The claims about the scan.                                              *)
(***************************************************************************)
\* C1: the scan loop terminates on every buffer: an occurrence of the marker
\* that lacks its ")", ">" or "<" is skipped with the cursor moved past it, so
\* that no occurrence is found twice and the loop body runs at most once for
\* each occurrence of the marker in the buffer.
C1_MalformedOccurrenceSkipped ==
    /\ (pc = "loop" /\ last.kind \in {"noclose", "nogt", "nolt"})
           => searchPos > last.markerPos
    /\ iters <= NumMarkers(RunInput)

\* C2: the file is rewritten only if at least one target span was spliced.
C2_WrittenOnlyIfSpliced ==
    (pc = "done" /\ written) => Len(spans) > 0

\* C5: a buffer without any occurrence of the marker leaves the scan unchanged
\* and unmodified, and the file is not rewritten.
C5_NoMarkerUntouched ==
    (NumMarkers(original) = 0 /\ pc \in {"persist", "done"}) =>
        /\ content = original
        /\ ~modified
        /\ ~written
        /\ file = original

C5_Witness ==
    /\ pc = "done" /\ run = 1
    /\ NumMarkers(original) = 0
    /\ Len(original) > 0
    /\ file = original

C7_SplicedTextIsFormattedDate ==
    /\ last.kind = "splice" =>
          LET m == last.markerPos
              args == ArgumentText(content, m)
              text == Rendered(content, m, startDate, startIndex)
              from == SpanOpen(content, m) + 1
          IN  /\ last.newDateStr = text
              /\ SubSeq(content, from + 1, from + Len(text)) = text
              /\ searchPos \in {from + Len(text), npos}
              /\ content[from + Len(text) + 1] = "<"
              /\ Commas(args) = {} =>
                     text = formatDate(Mktime(startDate), Strip(args))
    /\ (/\ pc = "done" /\ run = 1 /\ original = ExampleBuffer
        /\ startDate = Tm(2024, 1, 15) /\ startIndex = 1)
           => file = ExampleResult

C7_Witness ==
    /\ pc = "done" /\ run = 1
    /\ original = ExampleBuffer
    /\ startDate = Tm(2024, 1, 15) /\ startIndex = 1
    /\ last.kind = "splice"
    /\ file = ExampleResult

\* whether the second run overwrote the spans the first run wrote, and left
\* the buffer as the first run left it
SecondRunSame ==
    /\ content = firstOut
    /\ Len(spans) = Len(firstSpans)
    /\ \A i \in 1..Len(spans) :
          /\ spans[i].start = firstSpans[i].start
          /\ spans[i].end = firstSpans[i].newEnd

\* C8 as stated: a second run on the output of the first, with the same base
\* date and start index, selects for every marker the span the first run
\* rewrote and leaves the buffer equal to the first run's.
C8_SecondRunSameBuffer ==
    (run = 2 /\ pc \in {"persist", "done"}) => SecondRunSame

\* no date text the first run inserted holds a "<"
NoLtRendered ==
    \A i \in 1..Len(firstSpans) :
        \A p \in (firstSpans[i].start + 1)..firstSpans[i].newEnd :
            firstOut[p] # "<"

\* C8 as amended: the same, provided no date text the first run rendered
\* holds a "<".
C8_SecondRunSameUnlessLt ==
    (run = 2 /\ pc \in {"persist", "done"} /\ NoLtRendered) => SecondRunSame

C8_Witness ==
    /\ run = 2 /\ pc = "done"
    /\ Len(firstSpans) > 0
    /\ NoLtRendered
    /\ firstOut # original
    /\ content = firstOut

\* C9: a splice changes only the characters strictly between the first ">" at
\* or after the directive's closing parenthesis and the next "<": the buffer up
\* to and including that ">", which holds the marker and its argument text, and
\* the buffer from that "<" on are the same before and after.
C9_SpliceFrame ==
    [][(IterStep /\ last'.kind = "splice") =>
          LET m == last'.markerPos
              gt == SpanOpen(content, m)
              lt == SpanClose(content, m)
              tail == Len(content) - lt
          IN  /\ m + Len(startMarker) <= ClosingParen(content, m)
              /\ ClosingParen(content, m) <= gt
              /\ gt < lt /\ lt < Len(content)
              /\ Len(content') >= gt + 1 + tail
              /\ SubSeq(content', 1, gt + 1) = SubSeq(content, 1, gt + 1)
              /\ SubSeq(content', Len(content') - tail + 1, Len(content'))
                     = SubSeq(content, lt + 1, Len(content))
      ]_vars

C9_Witness ==
    /\ run = 1 /\ pc = "loop"
    /\ last.kind = "splice"
    /\ content # original

\* C10: an iteration that splices or skips a bad day number takes a marker at
\* or after the cursor and leaves the cursor strictly greater; no iteration
\* changes the text before the cursor; a spliced span starts after the cursor
\* and at or after the end of the text spliced before it; and the number of
\* such iterations is at most the number of occurrences of the marker in the
\* buffer the run started from.
C10_CursorMonotone ==
    [][/\ (IterStep /\ last'.kind \in {"splice", "badday"}) =>
              /\ last'.markerPos >= searchPos
              /\ searchPos' > last'.markerPos
              /\ searchPos' > searchPos
       /\ IterStep => SubSeq(content', 1, searchPos) = SubSeq(content, 1, searchPos)
       /\ (IterStep /\ last'.kind = "splice") =>
              /\ last'.replaceStartPos > searchPos
              /\ last'.replaceStartPos <= last'.replaceEndPos
              /\ spans # <<>> => last'.replaceStartPos >= spans[Len(spans)].newEnd
       /\ processed' <= NumMarkers(RunInput')
      ]_vars

C10_Witness ==
    /\ run = 1 /\ pc = "done"
    /\ Len(spans) = 2
    /\ spans[1].newEnd <= spans[2].start
    /\ processed <= NumMarkers(original)

=============================================================================
